---- MODULE Spec2Model ----
(***************************************************************************)
(* Model of the Music-App canister (TMCrypto/Music-App): two stable maps,  *)
(* songsStorage and playlistsStorage, and the update/query calls on them.  *)
(*                                                                         *)
(* The repository holds three revisions of the canister source:            *)
(*   "A"  src/src/index.ts lines 1-365    (the one that defines updateSong)*)
(*   "B"  src/src/index.ts lines 367-665  (validation with trim())         *)
(*   "C"  src/unnamed/part_000 lines 48-420                                *)
(* The variable `variant` fixes, at construction, which revision runs.     *)
(* Each call is one atomic step (a canister update call runs to            *)
(* completion); `last` records the call just made and what it returned.    *)
(***************************************************************************)
EXTENDS Integers, Sequences, FiniteSets, TLC

VARIABLES
    songsStorage,      \* StableBTreeMap<string, Song>: key -> Song
    playlistsStorage,  \* StableBTreeMap<string, Playlist>: key -> Playlist
    songIds,           \* number of song identifiers uuidv4() has produced
    playlistIds,       \* number of playlist identifiers uuidv4() has produced
    now,               \* ic.time()
    variant,           \* the revision of the source that is deployed
    last               \* the last call: op, caller, args, result, writes

vars == <<songsStorage, playlistsStorage, songIds, playlistIds, now, variant, last>>

----------------------------------------------------------------------------
(* Bounds of the model *)

MaxSongs == 2
MaxPlaylists == 2
MaxTime == 2
MaxLen == 2
MaxTotal == 4

----------------------------------------------------------------------------
(* Values the callers supply *)

Variants == {"A", "B", "C"}

Principals == {"alice", "bob"}

Durations == {-1, 1, 2}

\* uuidv4() never repeats an identifier: the n-th identifier of each kind.
SongKey(n) == "s" \o ToString(n)
PlaylistKey(n) == "p" \o ToString(n)

None == <<>>
Some(x) == <<x>>

\* String.prototype.trim on the strings of the model: the only string made
\* of whitespace is " ", and no other string has leading or trailing space.
trim(s) == IF s = " " THEN "" ELSE s

SongPayload(fn, mt, t, sg, d) ==
    [fileName |-> fn, mimeType |-> mt, title |-> t, singers |-> sg,
     genre |-> "rock", duration |-> d, releaseDate |-> "2023-01-01"]

PlaylistPayload(n, d) == [name |-> n, description |-> d]

----------------------------------------------------------------------------
(* Results and error messages *)

NoRecord == [id |-> ""]

Ok(v) == [tag |-> "Ok", val |-> v, err |-> ""]
Err(e) == [tag |-> "Err", val |-> NoRecord, err |-> e]

fieldCannotBeEmpty(fieldName) == fieldName \o " cannot be empty."
recordWithIdNotFound(recordName, id) == recordName \o " with id=" \o id \o " not found."
nonAdmin(id) == "IC caller isn't the admin of the playlist with id " \o id \o "."
couldNotUpdate(recordName, id) ==
    "Couldn't update the " \o recordName \o " with id=" \o id \o
    (IF variant = "C" THEN ", because the record was not found."
                      ELSE ", because record not found.")
couldNotRemove(recordName, id) ==
    "Couldn't remove the " \o recordName \o " with id=" \o id \o
    (IF variant = "C" THEN ", because the record was not found."
                      ELSE ", because record not found.")
alreadyExists(recordName) == recordName \o " already exists."
invalidSongList == "Invalid song list."
nothingAdded == "Unable to find the songs you wanted to add or they all already exist."
mustProvideSingers == "You must provide singer(s)."
payloadMustInclude == "Payload must include 'name' and 'description' properties."

----------------------------------------------------------------------------
(* StableBTreeMap *)

get(store, key) == IF key \in DOMAIN store THEN Some(store[key]) ELSE None

insert(store, key, value) ==
    [k \in DOMAIN store \cup {key} |-> IF k = key THEN value ELSE store[k]]

remove(store, key) == [k \in DOMAIN store \ {key} |-> store[k]]

\* values() is searched with find(), whose result is only tested for
\* truthiness, or returned whole by getSongs and getPlaylists; the Vec is
\* taken as the collection of its elements.
values(store) == {store[k] : k \in DOMAIN store}

\* What a call hands back to the action: the two maps after the call, the
\* result, and the number of writes (insert/remove) issued on the maps.
Outcome(songs, playlists, result, writes) ==
    [songs |-> songs, playlists |-> playlists, result |-> result, writes |-> writes]

Unchanged(result) == Outcome(songsStorage, playlistsStorage, result, 0)

----------------------------------------------------------------------------
(* Input validation *)

\* `x === ""` in revisions A and C, `!x || !x.trim()` in revision B
isEmptyField(x) == IF variant = "B" THEN trim(x) = "" ELSE x = ""

----------------------------------------------------------------------------
(* uploadSong *)

\* (mutation) uploadSong storing the song without its genre
uploadSongCall_StoresOther(payload) ==
    IF isEmptyField(payload.fileName) THEN Unchanged(Err(fieldCannotBeEmpty("File name")))
    ELSE IF isEmptyField(payload.mimeType) THEN Unchanged(Err(fieldCannotBeEmpty("File type")))
    ELSE IF isEmptyField(payload.title) THEN Unchanged(Err(fieldCannotBeEmpty("Title")))
    ELSE IF Len(payload.singers) = 0 THEN Unchanged(Err(mustProvideSingers))
    ELSE IF \E song \in values(songsStorage) :
                song.fileName = payload.fileName /\ song.title = payload.title
         THEN Unchanged(Err(alreadyExists("Song")))
    ELSE LET song == [id |-> SongKey(songIds + 1), uploadedAt |-> now,
                      fileName |-> payload.fileName, mimeType |-> payload.mimeType,
                      title |-> payload.title, singers |-> payload.singers,
                      genre |-> payload.genre, duration |-> payload.duration,
                      releaseDate |-> payload.releaseDate]
         IN Outcome(insert(songsStorage, song.id, [song EXCEPT !.genre = ""]),
                    playlistsStorage, Ok(song), 1)

\* (mutation) uploadSong without the scan for the (fileName, title) pair
uploadSongCall_NoDuplicateTest(payload) ==
    IF isEmptyField(payload.fileName) THEN Unchanged(Err(fieldCannotBeEmpty("File name")))
    ELSE IF isEmptyField(payload.mimeType) THEN Unchanged(Err(fieldCannotBeEmpty("File type")))
    ELSE IF isEmptyField(payload.title) THEN Unchanged(Err(fieldCannotBeEmpty("Title")))
    ELSE IF Len(payload.singers) = 0 THEN Unchanged(Err(mustProvideSingers))
    ELSE LET song == [id |-> SongKey(songIds + 1), uploadedAt |-> now,
                      fileName |-> payload.fileName, mimeType |-> payload.mimeType,
                      title |-> payload.title, singers |-> payload.singers,
                      genre |-> payload.genre, duration |-> payload.duration,
                      releaseDate |-> payload.releaseDate]
         IN Outcome(insert(songsStorage, song.id, song), playlistsStorage, Ok(song), 1)

uploadSongCall(payload) ==
    IF isEmptyField(payload.fileName) THEN Unchanged(Err(fieldCannotBeEmpty("File name")))
    ELSE IF isEmptyField(payload.mimeType) THEN Unchanged(Err(fieldCannotBeEmpty("File type")))
    ELSE IF isEmptyField(payload.title) THEN Unchanged(Err(fieldCannotBeEmpty("Title")))
    ELSE IF Len(payload.singers) = 0 THEN Unchanged(Err(mustProvideSingers))
    ELSE IF \E song \in values(songsStorage) :
                song.fileName = payload.fileName /\ song.title = payload.title
         THEN Unchanged(Err(alreadyExists("Song")))
    ELSE LET song == [id |-> SongKey(songIds + 1), uploadedAt |-> now,
                      fileName |-> payload.fileName, mimeType |-> payload.mimeType,
                      title |-> payload.title, singers |-> payload.singers,
                      genre |-> payload.genre, duration |-> payload.duration,
                      releaseDate |-> payload.releaseDate]
         IN Outcome(insert(songsStorage, song.id, song), playlistsStorage, Ok(song), 1)

uploadSong(payload) ==
    LET out == uploadSongCall(payload) IN
    /\ songsStorage' = out.songs
    /\ playlistsStorage' = out.playlists
    /\ songIds' = IF out.writes = 1 THEN songIds + 1 ELSE songIds
    /\ last' = [op |-> "uploadSong", caller |-> "", args |-> [payload |-> payload],
                result |-> out.result, writes |-> out.writes]
    /\ UNCHANGED <<playlistIds, now, variant>>

----------------------------------------------------------------------------
(* createPlaylist *)

createPlaylistValidation(payload) ==
    IF variant = "C"
    THEN IF payload.name = "" \/ payload.description = ""
         THEN Some(payloadMustInclude) ELSE None
    ELSE IF isEmptyField(payload.name)
         THEN Some(fieldCannotBeEmpty("Playlist name")) ELSE None

\* (mutation) createPlaylist stamping updatedAt with the creation time
createPlaylistCall_StampsUpdatedAt(caller, payload) ==
    IF createPlaylistValidation(payload) # None
    THEN Unchanged(Err(createPlaylistValidation(payload)[1]))
    ELSE IF \E playlist \in values(playlistsStorage) : playlist.name = payload.name
    THEN Unchanged(Err(alreadyExists("Playlist")))
    ELSE LET playlist == [id |-> PlaylistKey(playlistIds + 1), admin |-> caller,
                          songs |-> <<>>, totalDuration |-> 0, createdAt |-> now,
                          updatedAt |-> Some(now), name |-> payload.name,
                          description |-> payload.description]
         IN Outcome(songsStorage, insert(playlistsStorage, playlist.id, playlist),
                    Ok(playlist), 1)

createPlaylistCall(caller, payload) ==
    IF createPlaylistValidation(payload) # None
    THEN Unchanged(Err(createPlaylistValidation(payload)[1]))
    ELSE IF \E playlist \in values(playlistsStorage) : playlist.name = payload.name
    THEN Unchanged(Err(alreadyExists("Playlist")))
    ELSE LET playlist == [id |-> PlaylistKey(playlistIds + 1), admin |-> caller,
                          songs |-> <<>>, totalDuration |-> 0, createdAt |-> now,
                          updatedAt |-> None, name |-> payload.name,
                          description |-> payload.description]
         IN Outcome(songsStorage, insert(playlistsStorage, playlist.id, playlist),
                    Ok(playlist), 1)

createPlaylist(caller, payload) ==
    LET out == createPlaylistCall(caller, payload) IN
    /\ songsStorage' = out.songs
    /\ playlistsStorage' = out.playlists
    /\ playlistIds' = IF out.writes = 1 THEN playlistIds + 1 ELSE playlistIds
    /\ last' = [op |-> "createPlaylist", caller |-> caller, args |-> [payload |-> payload],
                result |-> out.result, writes |-> out.writes]
    /\ UNCHANGED <<songIds, now, variant>>

----------------------------------------------------------------------------
(* updatePlaylist *)

\* `!id || !id.trim()`, the guard revision B puts in front of the lookups
isBlankId(id) == trim(id) = ""

updatePlaylistValidation(id, payload) ==
    IF variant = "C"
    THEN IF payload.name = "" \/ payload.description = "" \/
            trim(payload.name) = "" \/ trim(payload.description) = ""
         THEN Some(fieldCannotBeEmpty("name or description")) ELSE None
    ELSE IF variant = "B" /\ isBlankId(id)
         THEN Some(fieldCannotBeEmpty("Playlist id")) ELSE None

\* (mutation) updatePlaylist replacing the name and keeping the description
updatePlaylistCall_KeepsDescription(caller, id, payload) ==
    IF updatePlaylistValidation(id, payload) # None
    THEN Unchanged(Err(updatePlaylistValidation(id, payload)[1]))
    ELSE IF get(playlistsStorage, id) = None
    THEN Unchanged(Err(couldNotUpdate("playlist", id)))
    ELSE LET playlist == get(playlistsStorage, id)[1] IN
         IF playlist.admin # caller
         THEN Unchanged(Err(nonAdmin(id)))
         ELSE LET updatedPlaylist ==
                      [playlist EXCEPT !.name = payload.name,
                                       !.updatedAt = Some(now)]
              IN Outcome(songsStorage,
                         insert(playlistsStorage, playlist.id, updatedPlaylist),
                         Ok(updatedPlaylist), 1)

updatePlaylistCall(caller, id, payload) ==
    IF updatePlaylistValidation(id, payload) # None
    THEN Unchanged(Err(updatePlaylistValidation(id, payload)[1]))
    ELSE IF get(playlistsStorage, id) = None
    THEN Unchanged(Err(couldNotUpdate("playlist", id)))
    ELSE LET playlist == get(playlistsStorage, id)[1] IN
         IF playlist.admin # caller
         THEN Unchanged(Err(nonAdmin(id)))
         ELSE LET updatedPlaylist ==
                      [playlist EXCEPT !.name = payload.name,
                                       !.description = payload.description,
                                       !.updatedAt = Some(now)]
              IN Outcome(songsStorage,
                         insert(playlistsStorage, playlist.id, updatedPlaylist),
                         Ok(updatedPlaylist), 1)

updatePlaylist(caller, id, payload) ==
    LET out == updatePlaylistCall(caller, id, payload) IN
    /\ songsStorage' = out.songs
    /\ playlistsStorage' = out.playlists
    /\ last' = [op |-> "updatePlaylist", caller |-> caller,
                args |-> [id |-> id, payload |-> payload],
                result |-> out.result, writes |-> out.writes]
    /\ UNCHANGED <<songIds, playlistIds, now, variant>>

----------------------------------------------------------------------------
(* addSongsToPlaylist *)

\* Array.prototype.find: the first element equal to x, or undefined
find(seq, x) == IF \E i \in 1..Len(seq) : seq[i] = x THEN Some(x) ELSE None

\* JavaScript truthiness of what find() returned: undefined and "" are falsy
truthy(opt) == opt # None /\ opt[1] # ""

\* Array.prototype.findIndex, 1-based; 0 stands for -1
findIndex(seq, x) ==
    IF \E i \in 1..Len(seq) : seq[i] = x
    THEN CHOOSE i \in 1..Len(seq) : seq[i] = x /\ \A j \in 1..(i - 1) : seq[j] # x
    ELSE 0

\* (mutation) the removal dropping the last entry whatever the index
splice_RemovesLast(seq, index) == [i \in 1..(Len(seq) - 1) |-> seq[i]]

\* Array.prototype.splice(index, 1)
splice(seq, index) == [i \in 1..(Len(seq) - 1) |-> IF i < index THEN seq[i] ELSE seq[i + 1]]

\* (mutation) the forEach body without the duplicatedSong test
addOneSong_NoDuplicateTest(acc, songId) ==
    LET existingSong == get(songsStorage, songId) IN
    IF existingSong # None
    THEN [playlist |->
             [acc.playlist EXCEPT
                 !.songs = Append(@, songId),
                 !.totalDuration = @ + existingSong[1].duration],
          addFlag |-> TRUE]
    ELSE acc

\* (mutation) the forEach body adding the duration before the duplicatedSong test
addOneSong_CountsDuplicates(acc, songId) ==
    LET existingSong == get(songsStorage, songId) IN
    IF existingSong # None
    THEN LET duplicatedSong == find(acc.playlist.songs, songId)
             counted == [acc.playlist EXCEPT
                            !.totalDuration = @ + existingSong[1].duration]
         IN IF ~truthy(duplicatedSong)
            THEN [playlist |-> [counted EXCEPT !.songs = Append(@, songId)],
                  addFlag |-> TRUE]
            ELSE [playlist |-> counted, addFlag |-> TRUE]
    ELSE acc

\* (mutation) the forEach body appending the song without adding its duration
addOneSong_SkipsDuration(acc, songId) ==
    LET existingSong == get(songsStorage, songId) IN
    IF existingSong # None
    THEN LET duplicatedSong == find(acc.playlist.songs, songId) IN
         IF ~truthy(duplicatedSong)
         THEN [playlist |-> [acc.playlist EXCEPT !.songs = Append(@, songId)],
               addFlag |-> TRUE]
         ELSE acc
    ELSE acc

\* (mutation) the forEach body without the songsStorage lookup
addOneSong_NoCatalogTest(acc, songId) ==
    LET existingSong == get(songsStorage, songId)
        duplicatedSong == find(acc.playlist.songs, songId) IN
    IF ~truthy(duplicatedSong)
    THEN [playlist |->
             [acc.playlist EXCEPT
                 !.songs = Append(@, songId),
                 !.totalDuration =
                     @ + (IF existingSong # None THEN existingSong[1].duration ELSE 0)],
          addFlag |-> TRUE]
    ELSE acc

\* One round of the forEach body: acc is [playlist, addFlag]
addOneSong(acc, songId) ==
    LET existingSong == get(songsStorage, songId) IN
    IF existingSong # None
    THEN LET duplicatedSong == find(acc.playlist.songs, songId) IN
         IF ~truthy(duplicatedSong)
         THEN [playlist |->
                  [acc.playlist EXCEPT
                      !.songs = Append(@, songId),
                      !.totalDuration = @ + existingSong[1].duration],
               addFlag |-> TRUE]
         ELSE acc
    ELSE acc

RECURSIVE forEachSong(_, _)
forEachSong(acc, songs) ==
    IF songs = <<>> THEN acc
    ELSE forEachSong(addOneSong(acc, Head(songs)), Tail(songs))

addSongsValidation(id, songs) ==
    IF variant = "B"
    THEN IF isBlankId(id) THEN Some(fieldCannotBeEmpty("Playlist id"))
         ELSE IF Len(songs) = 0 THEN Some(invalidSongList) ELSE None
    ELSE IF Len(songs) = 0 THEN Some(fieldCannotBeEmpty("Song list")) ELSE None

\* (mutation) addSongsToPlaylist without the updatedAt stamp
addSongsToPlaylistCall_NoStamp(caller, id, songs) ==
    IF addSongsValidation(id, songs) # None
    THEN Unchanged(Err(addSongsValidation(id, songs)[1]))
    ELSE IF get(playlistsStorage, id) = None
    THEN Unchanged(Err(couldNotUpdate("playlist", id)))
    ELSE LET playlist == get(playlistsStorage, id)[1] IN
         IF playlist.admin # caller
         THEN Unchanged(Err(nonAdmin(id)))
         ELSE LET start == [playlist |-> playlist, addFlag |-> FALSE]
                  done == forEachSong(start, songs)
              IN IF ~done.addFlag
                 THEN Unchanged(Err(nothingAdded))
                 ELSE Outcome(songsStorage,
                              insert(playlistsStorage, playlist.id, done.playlist),
                              Ok(done.playlist), 1)

\* (mutation) the insert issued before the addFlag test
addSongsToPlaylistCall_WritesFirst(caller, id, songs) ==
    IF addSongsValidation(id, songs) # None
    THEN Unchanged(Err(addSongsValidation(id, songs)[1]))
    ELSE IF get(playlistsStorage, id) = None
    THEN Unchanged(Err(couldNotUpdate("playlist", id)))
    ELSE LET playlist == get(playlistsStorage, id)[1] IN
         IF playlist.admin # caller
         THEN Unchanged(Err(nonAdmin(id)))
         ELSE LET start == [playlist |-> [playlist EXCEPT !.updatedAt = Some(now)],
                            addFlag |-> FALSE]
                  done == forEachSong(start, songs)
              IN Outcome(songsStorage,
                         insert(playlistsStorage, playlist.id, done.playlist),
                         IF done.addFlag THEN Ok(done.playlist) ELSE Err(nothingAdded),
                         1)

\* (mutation) the insert issued inside the forEach, once per appended song
addSongsToPlaylistCall_WritesEach(caller, id, songs) ==
    IF addSongsValidation(id, songs) # None
    THEN Unchanged(Err(addSongsValidation(id, songs)[1]))
    ELSE IF get(playlistsStorage, id) = None
    THEN Unchanged(Err(couldNotUpdate("playlist", id)))
    ELSE LET playlist == get(playlistsStorage, id)[1] IN
         IF playlist.admin # caller
         THEN Unchanged(Err(nonAdmin(id)))
         ELSE LET start == [playlist |-> [playlist EXCEPT !.updatedAt = Some(now)],
                            addFlag |-> FALSE]
                  done == forEachSong(start, songs)
              IN IF ~done.addFlag
                 THEN Unchanged(Err(nothingAdded))
                 ELSE Outcome(songsStorage,
                              insert(playlistsStorage, playlist.id, done.playlist),
                              Ok(done.playlist),
                              Len(done.playlist.songs) - Len(playlist.songs))

\* (mutation) addFlag set for every candidate found in the catalog, listed
\* already or not
addSongsToPlaylistCall_FlagsListed(caller, id, songs) ==
    IF addSongsValidation(id, songs) # None
    THEN Unchanged(Err(addSongsValidation(id, songs)[1]))
    ELSE IF get(playlistsStorage, id) = None
    THEN Unchanged(Err(couldNotUpdate("playlist", id)))
    ELSE LET playlist == get(playlistsStorage, id)[1] IN
         IF playlist.admin # caller
         THEN Unchanged(Err(nonAdmin(id)))
         ELSE LET start == [playlist |-> [playlist EXCEPT !.updatedAt = Some(now)],
                            addFlag |-> FALSE]
                  done == forEachSong(start, songs)
              IN IF \A i \in 1..Len(songs) : get(songsStorage, songs[i]) = None
                 THEN Unchanged(Err(nothingAdded))
                 ELSE Outcome(songsStorage,
                              insert(playlistsStorage, playlist.id, done.playlist),
                              Ok(done.playlist), 1)

addSongsToPlaylistCall(caller, id, songs) ==
    IF addSongsValidation(id, songs) # None
    THEN Unchanged(Err(addSongsValidation(id, songs)[1]))
    ELSE IF get(playlistsStorage, id) = None
    THEN Unchanged(Err(couldNotUpdate("playlist", id)))
    ELSE LET playlist == get(playlistsStorage, id)[1] IN
         IF playlist.admin # caller
         THEN Unchanged(Err(nonAdmin(id)))
         ELSE LET start == [playlist |-> [playlist EXCEPT !.updatedAt = Some(now)],
                            addFlag |-> FALSE]
                  done == forEachSong(start, songs)
              IN IF ~done.addFlag
                 THEN Unchanged(Err(nothingAdded))
                 ELSE Outcome(songsStorage,
                              insert(playlistsStorage, playlist.id, done.playlist),
                              Ok(done.playlist), 1)

addSongsToPlaylist(caller, id, songs) ==
    LET out == addSongsToPlaylistCall(caller, id, songs) IN
    /\ songsStorage' = out.songs
    /\ playlistsStorage' = out.playlists
    /\ last' = [op |-> "addSongsToPlaylist", caller |-> caller,
                args |-> [id |-> id, songs |-> songs],
                result |-> out.result, writes |-> out.writes]
    /\ UNCHANGED <<songIds, playlistIds, now, variant>>

----------------------------------------------------------------------------
(* deletePlaylist *)

\* (mutation) deletePlaylist returning the record without removing it
deletePlaylistCall_KeepsRecord(caller, id) ==
    IF variant = "B" /\ isBlankId(id)
    THEN Unchanged(Err(fieldCannotBeEmpty("Playlist id")))
    ELSE IF get(playlistsStorage, id) = None
    THEN Unchanged(Err(couldNotRemove("playlist", id)))
    ELSE LET playlist == get(playlistsStorage, id)[1] IN
         IF playlist.admin # caller
         THEN Unchanged(Err(nonAdmin(id)))
         ELSE Outcome(songsStorage, playlistsStorage, Ok(playlist), 1)

\* (mutation) deletePlaylist without the admin test
deletePlaylistCall_NoAdminTest(caller, id) ==
    IF variant = "B" /\ isBlankId(id)
    THEN Unchanged(Err(fieldCannotBeEmpty("Playlist id")))
    ELSE IF get(playlistsStorage, id) = None
    THEN Unchanged(Err(couldNotRemove("playlist", id)))
    ELSE Outcome(songsStorage, remove(playlistsStorage, id),
                 Ok(get(playlistsStorage, id)[1]), 1)

\* (mutation) deletePlaylist emptying the playlist store
deletePlaylistCall_ClearsStore(caller, id) ==
    IF variant = "B" /\ isBlankId(id)
    THEN Unchanged(Err(fieldCannotBeEmpty("Playlist id")))
    ELSE IF get(playlistsStorage, id) = None
    THEN Unchanged(Err(couldNotRemove("playlist", id)))
    ELSE LET playlist == get(playlistsStorage, id)[1] IN
         IF playlist.admin # caller
         THEN Unchanged(Err(nonAdmin(id)))
         ELSE Outcome(songsStorage, [k \in {} |-> playlist], Ok(playlist), 1)

deletePlaylistCall(caller, id) ==
    IF variant = "B" /\ isBlankId(id)
    THEN Unchanged(Err(fieldCannotBeEmpty("Playlist id")))
    ELSE IF get(playlistsStorage, id) = None
    THEN Unchanged(Err(couldNotRemove("playlist", id)))
    ELSE LET playlist == get(playlistsStorage, id)[1] IN
         IF playlist.admin # caller
         THEN Unchanged(Err(nonAdmin(id)))
         ELSE Outcome(songsStorage, remove(playlistsStorage, id), Ok(playlist), 1)

deletePlaylist(caller, id) ==
    LET out == deletePlaylistCall(caller, id) IN
    /\ songsStorage' = out.songs
    /\ playlistsStorage' = out.playlists
    /\ last' = [op |-> "deletePlaylist", caller |-> caller, args |-> [id |-> id],
                result |-> out.result, writes |-> out.writes]
    /\ UNCHANGED <<songIds, playlistIds, now, variant>>

----------------------------------------------------------------------------
(* deleteSongFromPlaylist *)

\* (mutation) the removal without the floor at 0
durationAfterRemoval_NoFloor(totalDuration, deletingSong) ==
    IF deletingSong # None THEN totalDuration - deletingSong[1].duration ELSE 0

\* (mutation) the removal that always takes the reset branch
durationAfterRemoval_AlwaysResets(totalDuration, deletingSong) == 0

\* The duration branch of the removal: subtract when the song is still in
\* the catalog and the difference is not negative, otherwise reset to 0.
durationAfterRemoval(totalDuration, deletingSong) ==
    IF deletingSong # None /\ totalDuration - deletingSong[1].duration >= 0
    THEN totalDuration - deletingSong[1].duration
    ELSE 0

\* (mutation) the stamp and the insert moved out of the `songIndex != -1` branch
deleteSongFromPlaylistCall_AlwaysWrites(caller, playlistId, songId) ==
    IF isEmptyField(playlistId) THEN Unchanged(Err(fieldCannotBeEmpty("Playlist id")))
    ELSE IF isEmptyField(songId) THEN Unchanged(Err(fieldCannotBeEmpty("Song id")))
    ELSE IF get(playlistsStorage, playlistId) = None
    THEN Unchanged(Err(couldNotRemove("playlist", playlistId)))
    ELSE LET playlist == get(playlistsStorage, playlistId)[1] IN
         IF playlist.admin # caller
         THEN Unchanged(Err(nonAdmin(playlistId)))
         ELSE LET songIndex == findIndex(playlist.songs, songId)
                  deletingSong == get(songsStorage, songId)
                  updatedPlaylist ==
                      IF songIndex # 0
                      THEN [playlist EXCEPT
                               !.totalDuration = durationAfterRemoval(@, deletingSong),
                               !.songs = splice(@, songIndex),
                               !.updatedAt = Some(now)]
                      ELSE [playlist EXCEPT !.updatedAt = Some(now)]
              IN Outcome(songsStorage,
                         insert(playlistsStorage, playlist.id, updatedPlaylist),
                         Ok(updatedPlaylist), 1)

\* (mutation) the removal taking the song out of the catalog as well
deleteSongFromPlaylistCall_RemovesSong(caller, playlistId, songId) ==
    IF isEmptyField(playlistId) THEN Unchanged(Err(fieldCannotBeEmpty("Playlist id")))
    ELSE IF isEmptyField(songId) THEN Unchanged(Err(fieldCannotBeEmpty("Song id")))
    ELSE IF get(playlistsStorage, playlistId) = None
    THEN Unchanged(Err(couldNotRemove("playlist", playlistId)))
    ELSE LET playlist == get(playlistsStorage, playlistId)[1] IN
         IF playlist.admin # caller
         THEN Unchanged(Err(nonAdmin(playlistId)))
         ELSE LET songIndex == findIndex(playlist.songs, songId) IN
              IF songIndex # 0
              THEN LET deletingSong == get(songsStorage, songId)
                       updatedPlaylist ==
                           [playlist EXCEPT
                               !.totalDuration = durationAfterRemoval(@, deletingSong),
                               !.songs = splice(@, songIndex),
                               !.updatedAt = Some(now)]
                   IN Outcome(remove(songsStorage, songId),
                              insert(playlistsStorage, playlist.id, updatedPlaylist),
                              Ok(updatedPlaylist), 2)
              ELSE Unchanged(Ok(playlist))

deleteSongFromPlaylistCall(caller, playlistId, songId) ==
    IF isEmptyField(playlistId) THEN Unchanged(Err(fieldCannotBeEmpty("Playlist id")))
    ELSE IF isEmptyField(songId) THEN Unchanged(Err(fieldCannotBeEmpty("Song id")))
    ELSE IF get(playlistsStorage, playlistId) = None
    THEN Unchanged(Err(couldNotRemove("playlist", playlistId)))
    ELSE LET playlist == get(playlistsStorage, playlistId)[1] IN
         IF playlist.admin # caller
         THEN Unchanged(Err(nonAdmin(playlistId)))
         ELSE LET songIndex == findIndex(playlist.songs, songId) IN
              IF songIndex # 0
              THEN LET deletingSong == get(songsStorage, songId)
                       updatedPlaylist ==
                           [playlist EXCEPT
                               !.totalDuration = durationAfterRemoval(@, deletingSong),
                               !.songs = splice(@, songIndex),
                               !.updatedAt = Some(now)]
                   IN Outcome(songsStorage,
                              insert(playlistsStorage, playlist.id, updatedPlaylist),
                              Ok(updatedPlaylist), 1)
              ELSE Unchanged(Ok(playlist))

deleteSongFromPlaylist(caller, playlistId, songId) ==
    LET out == deleteSongFromPlaylistCall(caller, playlistId, songId) IN
    /\ songsStorage' = out.songs
    /\ playlistsStorage' = out.playlists
    /\ last' = [op |-> "deleteSongFromPlaylist", caller |-> caller,
                args |-> [id |-> playlistId, songId |-> songId],
                result |-> out.result, writes |-> out.writes]
    /\ UNCHANGED <<songIds, playlistIds, now, variant>>

----------------------------------------------------------------------------
(* getSong and getPlaylist: the two queries by identifier *)

getSongCall(id) ==
    IF isEmptyField(id) THEN Unchanged(Err(fieldCannotBeEmpty("Song id")))
    ELSE IF get(songsStorage, id) = None
    THEN Unchanged(Err(recordWithIdNotFound("Song", id)))
    ELSE Unchanged(Ok(get(songsStorage, id)[1]))

getSong(id) ==
    LET out == getSongCall(id) IN
    /\ last' = [op |-> "getSong", caller |-> "", args |-> [id |-> id],
                result |-> out.result, writes |-> out.writes]
    /\ UNCHANGED <<songsStorage, playlistsStorage, songIds, playlistIds, now, variant>>

getPlaylistCall(id) ==
    IF isEmptyField(id) THEN Unchanged(Err(fieldCannotBeEmpty("Playlist id")))
    ELSE IF get(playlistsStorage, id) = None
    THEN Unchanged(Err(recordWithIdNotFound("Playlist", id)))
    ELSE Unchanged(Ok(get(playlistsStorage, id)[1]))

getPlaylist(caller, id) ==
    LET out == getPlaylistCall(id) IN
    /\ last' = [op |-> "getPlaylist", caller |-> caller, args |-> [id |-> id],
                result |-> out.result, writes |-> out.writes]
    /\ UNCHANGED <<songsStorage, playlistsStorage, songIds, playlistIds, now, variant>>

----------------------------------------------------------------------------
(* updateSong: defined by revision A only *)

\* (mutation) updateSong stamping uploadedAt anew
updateSongCall_Restamps(id, payload) ==
    IF get(songsStorage, id) = None
    THEN Unchanged(Err(couldNotUpdate("song", id)))
    ELSE LET song == get(songsStorage, id)[1]
             updatedSong ==
                 [song EXCEPT !.fileName = payload.fileName,
                              !.mimeType = payload.mimeType,
                              !.title = payload.title,
                              !.singers = payload.singers,
                              !.genre = payload.genre,
                              !.duration = payload.duration,
                              !.releaseDate = payload.releaseDate,
                              !.uploadedAt = now]
         IN Outcome(insert(songsStorage, id, updatedSong), playlistsStorage,
                    Ok(updatedSong), 1)

updateSongCall(id, payload) ==
    IF get(songsStorage, id) = None
    THEN Unchanged(Err(couldNotUpdate("song", id)))
    ELSE LET song == get(songsStorage, id)[1]
             updatedSong ==
                 [song EXCEPT !.fileName = payload.fileName,
                              !.mimeType = payload.mimeType,
                              !.title = payload.title,
                              !.singers = payload.singers,
                              !.genre = payload.genre,
                              !.duration = payload.duration,
                              !.releaseDate = payload.releaseDate]
         IN Outcome(insert(songsStorage, id, updatedSong), playlistsStorage,
                    Ok(updatedSong), 1)

updateSong(id, payload) ==
    LET out == updateSongCall(id, payload) IN
    /\ variant = "A"
    /\ songsStorage' = out.songs
    /\ playlistsStorage' = out.playlists
    /\ last' = [op |-> "updateSong", caller |-> "", args |-> [id |-> id, payload |-> payload],
                result |-> out.result, writes |-> out.writes]
    /\ UNCHANGED <<songIds, playlistIds, now, variant>>

----------------------------------------------------------------------------
(* The clock *)

Tick ==
    /\ now < MaxTime
    /\ now' = now + 1
    /\ UNCHANGED <<songsStorage, playlistsStorage, songIds, playlistIds, variant, last>>

----------------------------------------------------------------------------

EmptyMap == [k \in {} |-> NoRecord]

NoCall == [op |-> "init", caller |-> "", args |-> [none |-> ""],
           result |-> Ok(NoRecord), writes |-> 0]

\* The state after the canister is deployed: both maps empty.
Construct ==
    /\ songsStorage = EmptyMap
    /\ playlistsStorage = EmptyMap
    /\ songIds = 0
    /\ playlistIds = 0
    /\ now = 1
    /\ last = NoCall

\* Identifiers a caller may pass: every identifier the generator can produce
\* within the bounds (stored or not), and the empty string.
SongIdArgs == {SongKey(n) : n \in 1..MaxSongs} \cup {""}
PlaylistIdArgs == {PlaylistKey(n) : n \in 1..MaxPlaylists} \cup {""}

RECURSIVE SeqsUpTo(_, _)
SeqsUpTo(S, n) ==
    IF n = 0 THEN {<<>>}
    ELSE LET shorter == SeqsUpTo(S, n - 1)
         IN shorter \cup {Append(q, x) : q \in {r \in shorter : Len(r) = n - 1}, x \in S}

\* The fields of a stored song a caller sends back to updateSong
payloadOf(song) ==
    [fileName |-> song.fileName, mimeType |-> song.mimeType, title |-> song.title,
     singers |-> song.singers, genre |-> song.genre, duration |-> song.duration,
     releaseDate |-> song.releaseDate]

----------------------------------------------------------------------------
(* Spec: membership and total duration of one playlist, in every revision.  *)
(* Songs have signed durations; alice creates the playlist and calls the    *)
(* mutators (SpecAuth has the other callers); updateSong re-submits a song  *)
(* with another duration.  All calls run at the same ic.time().             *)

Init == Construct /\ variant \in Variants

SongPayloads ==
    {SongPayload("f1", "audio/mpeg", t, <<"x">>, d) : t \in {"t1", "t2"}, d \in Durations}

\* int64 is finite; the runs explored keep every totalDuration in a small range.
TotalsWithin ==
    \A k \in DOMAIN playlistsStorage :
        /\ playlistsStorage[k].totalDuration <= MaxTotal
        /\ playlistsStorage[k].totalDuration >= -MaxTotal

SongLists == SeqsUpTo({SongKey(n) : n \in 1..MaxSongs}, MaxLen)

Upload == songIds < MaxSongs /\ \E payload \in SongPayloads : uploadSong(payload)

CreateByAlice ==
    playlistIds < MaxPlaylists /\ createPlaylist("alice", PlaylistPayload("n1", "d1"))

AddSongs ==
    \E id \in DOMAIN playlistsStorage, songs \in SongLists :
        addSongsToPlaylist("alice", id, songs) /\ TotalsWithin'

DeleteSong ==
    \E id \in DOMAIN playlistsStorage, songId \in SongIdArgs :
        deleteSongFromPlaylist("alice", id, songId)

UpdateDuration ==
    \E id \in DOMAIN songsStorage, d \in Durations :
        updateSong(id, [payloadOf(songsStorage[id]) EXCEPT !.duration = d])

Next == Upload \/ CreateByAlice \/ AddSongs \/ DeleteSong \/ UpdateDuration

Spec == Init /\ [][Next]_vars

----------------------------------------------------------------------------
(* Notions the properties are stated with *)

Range(seq) == {seq[i] : i \in 1..Len(seq)}

\* The sum of duration over the listed songs that exist in the catalog
RECURSIVE SumDurations(_, _)
SumDurations(songs, catalog) ==
    IF songs = <<>> THEN 0
    ELSE (IF Head(songs) \in DOMAIN catalog THEN catalog[Head(songs)].duration ELSE 0)
         + SumDurations(Tail(songs), catalog)

RECURSIVE PickFrom(_, _, _)
PickFrom(seq, keep, i) ==
    IF i > Len(seq) THEN <<>>
    ELSE (IF i \in keep THEN <<seq[i]>> ELSE <<>>) \o PickFrom(seq, keep, i + 1)

\* In input order, the first occurrence of each candidate that exists in the
\* catalog and is not a member yet
Accepted(candidates, members, catalog) ==
    PickFrom(candidates,
             {i \in 1..Len(candidates) :
                 /\ candidates[i] \in DOMAIN catalog
                 /\ candidates[i] \notin Range(members)
                 /\ \A j \in 1..(i - 1) : candidates[j] # candidates[i]},
             1)

\* The step is a call of op (the clock does not move while a call runs)
Called(op) == last'.op = op /\ now' = now

\* The call recorded in last' was made on a stored playlist by its admin
ByAdminOnStored(op) ==
    /\ Called(op)
    /\ last'.args.id \in DOMAIN playlistsStorage
    /\ last'.caller = playlistsStorage[last'.args.id].admin

\* The call recorded in last' was made on a stored playlist by someone else
ByOtherOnStored(op) ==
    /\ Called(op)
    /\ last'.args.id \in DOMAIN playlistsStorage
    /\ last'.caller # playlistsStorage[last'.args.id].admin

----------------------------------------------------------------------------
(* C1: every stored playlist's totalDuration equals the sum of duration over *)
(* the songs listed in its songs field that exist in the song collection.    *)
(* The code breaks it: updateSong changes a duration and leaves the totals   *)
(* of the playlists that list the song, and a removal resets to 0.           *)
C1_TotalDurationIsSum ==
    \A k \in DOMAIN playlistsStorage :
        playlistsStorage[k].totalDuration =
            SumDurations(playlistsStorage[k].songs, songsStorage)

(* C5: the songs sequence of every stored playlist holds no song identifier *)
(* more than once.                                                           *)
C5_NoDuplicateSongs ==
    \A k \in DOMAIN playlistsStorage :
        LET songs == playlistsStorage[k].songs IN
        \A i, j \in 1..Len(songs) : songs[i] = songs[j] => i = j

\* a successful add whose list repeats an identifier
C5_Witness ==
    /\ last.op = "addSongsToPlaylist"
    /\ last.result.tag = "Ok"
    /\ Len(last.args.songs) = 2
    /\ last.args.songs[1] = last.args.songs[2]
    /\ last.args.id \in DOMAIN playlistsStorage
    /\ playlistsStorage[last.args.id].songs = <<last.args.songs[1]>>

(* C6: a successful addSongsToPlaylist by the admin stores and returns the   *)
(* playlist whose songs is the previous songs followed by, in input order,   *)
(* the first occurrence of each candidate that exists in the catalog and was *)
(* not a member, and whose totalDuration is the previous one plus the sum of *)
(* the durations of exactly those appended songs.                            *)
C6_AddAppendsAccepted ==
    [][ (ByAdminOnStored("addSongsToPlaylist") /\ last'.result.tag = "Ok") =>
          LET id == last'.args.id
              before == playlistsStorage[id]
              appended == Accepted(last'.args.songs, before.songs, songsStorage)
          IN /\ id \in DOMAIN playlistsStorage'
             /\ playlistsStorage'[id] = last'.result.val
             /\ last'.result.val.songs = before.songs \o appended
             /\ last'.result.val.totalDuration =
                    before.totalDuration + SumDurations(appended, songsStorage)
      ]_vars

\* addSongsToPlaylist(id, [s, s]) went through: s appended once, counted once
C6_Witness ==
    /\ last.op = "addSongsToPlaylist"
    /\ last.result.tag = "Ok"
    /\ Len(last.args.songs) = 2
    /\ last.args.songs[1] = last.args.songs[2]
    /\ last.result.val.songs = <<last.args.songs[1]>>
    /\ last.result.val.totalDuration = songsStorage[last.args.songs[1]].duration
    /\ last.result.val.totalDuration # 0

(* C7: when the admin calls addSongsToPlaylist with a non-empty list whose   *)
(* candidates are all absent from the catalog or already in playlist.songs,  *)
(* the call fails with the "nothing added" error, no store write occurs and  *)
(* the stored playlist is the same as before the call.                       *)
C7_NothingAdded ==
    [][ ( /\ ByAdminOnStored("addSongsToPlaylist")
          /\ last'.args.songs # <<>>
          /\ \A i \in 1..Len(last'.args.songs) :
                \/ last'.args.songs[i] \notin DOMAIN songsStorage
                \/ last'.args.songs[i] \in Range(playlistsStorage[last'.args.id].songs) )
        => /\ last'.result = Err(nothingAdded)
           /\ last'.writes = 0
           /\ playlistsStorage' = playlistsStorage
      ]_vars

\* the admin's add was refused with "nothing added" on a playlist that has a member
C7_Witness ==
    /\ last.op = "addSongsToPlaylist"
    /\ last.result = Err(nothingAdded)
    /\ last.args.id \in DOMAIN playlistsStorage
    /\ last.caller = playlistsStorage[last.args.id].admin
    /\ last.args.songs[1] \in Range(playlistsStorage[last.args.id].songs)

----------------------------------------------------------------------------
(* SpecClock: the same playlist with ic.time() advancing between the calls, *)
(* songs added one at a time.                                               *)

ClockDurations == {-1, 2}

\* the song titled t1 is uploaded with the first duration, t2 with the second
ClockPayloads ==
    {SongPayload("f1", "audio/mpeg", "t1", <<"x">>, -1),
     SongPayload("f1", "audio/mpeg", "t2", <<"x">>, 2)}

ClockUpdateDuration ==
    \E id \in DOMAIN songsStorage, d \in ClockDurations :
        updateSong(id, [payloadOf(songsStorage[id]) EXCEPT !.duration = d])

UploadOneOfTwo == songIds < MaxSongs /\ \E payload \in ClockPayloads : uploadSong(payload)

\* song identifiers a caller may pass, " " among them
DeleteSongOrBlank ==
    \E id \in DOMAIN playlistsStorage \cup {""}, songId \in SongIdArgs \cup {" "} :
        deleteSongFromPlaylist("alice", id, songId)

\* songs are added one at a time
AddOne ==
    \E id \in DOMAIN playlistsStorage \cup {""}, songId \in SongIdArgs :
        addSongsToPlaylist("alice", id, <<songId>>) /\ TotalsWithin'

Next_Clock ==
    Tick \/ UploadOneOfTwo \/ CreateByAlice \/ AddOne \/ DeleteSongOrBlank
    \/ ClockUpdateDuration

SpecClock == Init /\ [][Next_Clock]_vars

(* C8: when the admin calls deleteSongFromPlaylist with a songId present in  *)
(* playlist.songs, the stored and returned playlist has that id removed from *)
(* songs, updatedAt set to the current time, and totalDuration equal to the  *)
(* old totalDuration minus the song's duration if the song exists in the     *)
(* catalog and that difference is >= 0, and equal to 0 otherwise.            *)
C8_RemovalOfMember ==
    [][ ( /\ ByAdminOnStored("deleteSongFromPlaylist")
          /\ last'.args.songId \in Range(playlistsStorage[last'.args.id].songs) )
        => LET id == last'.args.id
               songId == last'.args.songId
               before == playlistsStorage[id]
               difference == before.totalDuration - songsStorage[songId].duration
           IN /\ last'.result.tag = "Ok"
              /\ id \in DOMAIN playlistsStorage'
              /\ playlistsStorage'[id] = last'.result.val
              /\ last'.result.val.songs = SelectSeq(before.songs, LAMBDA x : x # songId)
              /\ songId \notin Range(last'.result.val.songs)
              /\ last'.result.val.updatedAt = Some(now')
              /\ last'.result.val.totalDuration =
                     IF songId \in DOMAIN songsStorage /\ difference >= 0
                     THEN difference ELSE 0
      ]_vars

\* a removal, after the clock advanced, that reset the total to 0 although
\* the songs that remain do not sum to 0
C8_Witness ==
    /\ last.op = "deleteSongFromPlaylist"
    /\ last.writes = 1
    /\ last.result.val.totalDuration = 0
    /\ last.result.val.songs # <<>>
    /\ SumDurations(last.result.val.songs, songsStorage) # 0
    /\ last.result.val.updatedAt = Some(now)
    /\ now > last.result.val.createdAt

(* C9: when the admin calls deleteSongFromPlaylist with a non-blank songId   *)
(* that is not in playlist.songs, the call succeeds, the returned record is  *)
(* the stored record as it was before the call, updatedAt included, and the  *)
(* playlist collection is unchanged (no store write).                        *)
C9_RemovalOfNonMember ==
    [][ ( /\ ByAdminOnStored("deleteSongFromPlaylist")
          /\ trim(last'.args.songId) # ""
          /\ last'.args.songId \notin Range(playlistsStorage[last'.args.id].songs) )
        => /\ last'.result = Ok(playlistsStorage[last'.args.id])
           /\ last'.writes = 0
           /\ playlistsStorage' = playlistsStorage
      ]_vars

\* a no-op removal on a playlist last changed at an earlier time than now
C9_Witness ==
    /\ last.op = "deleteSongFromPlaylist"
    /\ last.result.tag = "Ok"
    /\ last.writes = 0
    /\ last.args.songId \in DOMAIN songsStorage
    /\ last.result.val.songs # <<>>
    /\ last.result.val.updatedAt # None
    /\ last.result.val.updatedAt # Some(now)
    /\ playlistsStorage[last.args.id] = last.result.val

----------------------------------------------------------------------------
(* SpecScenario: the sequence of section 8 of the specification and nothing *)
(* else: two songs of non-negative duration are uploaded, alice creates a   *)
(* playlist, adds the two songs A and B, removes A, then removes B.         *)

ScenarioPayloads ==
    {SongPayload("f1", "audio/mpeg", t, <<"x">>, d) :
        t \in {"t1", "t2"}, d \in {x \in Durations \cup {0} : x >= 0}}

ScenarioUpload ==
    /\ playlistIds = 0
    /\ songIds < MaxSongs
    /\ \E payload \in ScenarioPayloads : uploadSong(payload)

ScenarioCreate ==
    /\ playlistIds = 0
    /\ Cardinality(DOMAIN songsStorage) >= 2
    /\ CreateByAlice

ScenarioAdd ==
    /\ last.op = "createPlaylist"
    /\ last.result.tag = "Ok"
    /\ \E A, B \in DOMAIN songsStorage :
          A # B /\ addSongsToPlaylist("alice", last.result.val.id, <<A, B>>)

ScenarioRemoveA ==
    /\ last.op = "addSongsToPlaylist"
    /\ deleteSongFromPlaylist("alice", last.args.id, last.args.songs[1])

ScenarioRemoveB ==
    /\ last.op = "deleteSongFromPlaylist"
    /\ last.args.id \in DOMAIN playlistsStorage
    /\ Len(playlistsStorage[last.args.id].songs) = 1
    /\ deleteSongFromPlaylist("alice", last.args.id, playlistsStorage[last.args.id].songs[1])

Next_Scenario ==
    Tick \/ ScenarioUpload \/ ScenarioCreate \/ ScenarioAdd \/ ScenarioRemoveA \/ ScenarioRemoveB

SpecScenario == Init /\ [][Next_Scenario]_vars

(* C10: for a freshly created playlist and two distinct existing songs A and *)
(* B with non-negative durations dA and dB: after the admin adds A and B,    *)
(* totalDuration = dA + dB; after then removing A, totalDuration = dB and    *)
(* songs = [B]; after then removing B, totalDuration = 0 and songs = [].     *)
C10_AddAddRemoveRemove ==
    [][ LET id == last'.args.id
            after == playlistsStorage'[id]
            dur(x) == songsStorage[x].duration
        IN /\ (Called("addSongsToPlaylist") /\ last.op = "createPlaylist") =>
                 /\ last'.result = Ok(after)
                 /\ after.songs = last'.args.songs
                 /\ after.totalDuration = dur(last'.args.songs[1]) + dur(last'.args.songs[2])
           /\ (Called("deleteSongFromPlaylist") /\ last.op = "addSongsToPlaylist") =>
                 /\ last'.result = Ok(after)
                 /\ after.songs = <<last.args.songs[2]>>
                 /\ after.totalDuration = dur(last.args.songs[2])
           /\ (Called("deleteSongFromPlaylist") /\ last.op = "deleteSongFromPlaylist") =>
                 /\ last'.result = Ok(after)
                 /\ after.songs = <<>>
                 /\ after.totalDuration = 0
      ]_vars

\* the end of the sequence, with durations 1 and 2 (the 120 and 200 of the text)
C10_Witness ==
    /\ last.op = "deleteSongFromPlaylist"
    /\ last.writes = 1
    /\ last.result.val.songs = <<>>
    /\ last.result.val.totalDuration = 0
    /\ last.result.val = playlistsStorage[last.args.id]
    /\ {songsStorage[k].duration : k \in DOMAIN songsStorage} = {1, 2}

----------------------------------------------------------------------------
(* SpecAdmin: two playlists and the four mutators called by their admin and *)
(* by others, in every revision.  One song is in the catalog.               *)

AdminNames == {"n1", "n2"}

AdminUpload ==
    songIds < MaxSongs /\ uploadSong(SongPayload("f1", "audio/mpeg", "t1", <<"x">>, 1))

AdminCreate ==
    /\ playlistIds < MaxPlaylists
    /\ \E caller \in Principals, n \in AdminNames :
          createPlaylist(caller, PlaylistPayload(n, "d1"))

AdminUpdate ==
    \E caller \in Principals, id \in PlaylistIdArgs, n \in AdminNames \cup {""} :
        updatePlaylist(caller, id, PlaylistPayload(n, "d1"))

AdminAdd ==
    \E caller \in Principals, id \in PlaylistIdArgs,
       songs \in {<<>>} \cup {<<k>> : k \in DOMAIN songsStorage} :
        addSongsToPlaylist(caller, id, songs)

AdminDeleteSong ==
    \E caller \in Principals, id \in PlaylistIdArgs, songId \in DOMAIN songsStorage \cup {""} :
        deleteSongFromPlaylist(caller, id, songId)

AdminDelete ==
    \E caller \in Principals, id \in PlaylistIdArgs : deletePlaylist(caller, id)

Next_Admin ==
    AdminUpload \/ AdminCreate \/ AdminUpdate \/ AdminAdd \/ AdminDeleteSong \/ AdminDelete

SpecAdmin == Init /\ [][Next_Admin]_vars

----------------------------------------------------------------------------
(* SpecAuth: the four mutators called by the admin and by someone else, on  *)
(* playlists that all ask for the name n1 (createPlaylist refuses a second  *)
(* one while the first is stored); updatePlaylist re-submits the name or a  *)
(* blank one, with a description or a blank one.  Every call names a stored *)
(* playlist.                                                                *)

AuthCreate ==
    /\ playlistIds < MaxPlaylists
    /\ \E caller \in Principals : createPlaylist(caller, PlaylistPayload("n1", "d1"))

AuthPayloads ==
    {PlaylistPayload("n1", "d1"), PlaylistPayload("", "d1"), PlaylistPayload("n1", " ")}

AuthUpdate ==
    \E caller \in Principals, id \in DOMAIN playlistsStorage, payload \in AuthPayloads :
        updatePlaylist(caller, id, payload)

AuthAdd ==
    \E caller \in Principals, id \in DOMAIN playlistsStorage,
       songs \in {<<>>} \cup {<<k>> : k \in DOMAIN songsStorage} :
        addSongsToPlaylist(caller, id, songs)

AuthDeleteSong ==
    \E caller \in Principals, id \in DOMAIN playlistsStorage,
       songId \in DOMAIN songsStorage \cup {""} :
        deleteSongFromPlaylist(caller, id, songId)

AuthDelete ==
    \E caller \in Principals, id \in DOMAIN playlistsStorage : deletePlaylist(caller, id)

Next_Auth ==
    AdminUpload \/ AuthCreate \/ AuthUpdate \/ AuthAdd \/ AuthDeleteSong \/ AuthDelete

SpecAuth == Init /\ [][Next_Auth]_vars

MutatorOps ==
    {"updatePlaylist", "addSongsToPlaylist", "deleteSongFromPlaylist", "deletePlaylist"}

\* The arguments recorded in last' pass the checks the operation makes
\* before it looks the playlist up
ArgumentsValid ==
    /\ last'.op = "addSongsToPlaylist" => last'.args.songs # <<>>
    /\ last'.op = "deleteSongFromPlaylist" => trim(last'.args.songId) # ""
    /\ last'.op = "updatePlaylist" =>
          trim(last'.args.payload.name) # "" /\ trim(last'.args.payload.description) # ""

C4_PlaylistNamesUnique ==
    \A j, k \in DOMAIN playlistsStorage :
        playlistsStorage[j].name = playlistsStorage[k].name => j = k

\* The messages with which updatePlaylist may refuse blank arguments
UpdateValidationErrors ==
    {fieldCannotBeEmpty("name or description"), fieldCannotBeEmpty("Playlist name"),
     fieldCannotBeEmpty("Playlist description"), fieldCannotBeEmpty("Playlist id")}

(* C16: updatePlaylist reports errors in the order: validation error if name *)
(* or description is blank (regardless of whether the playlist exists or who *)
(* calls), else not-found if the playlist is absent, else authorization      *)
(* error if the caller is not the admin; in each error case the playlist     *)
(* collection is unchanged.  The code breaks it: revisions A and B do not    *)
(* validate the payload, so a blank name is stored by the admin and is       *)
(* answered with not-found or the authorization error otherwise.             *)
C16_UpdateErrorOrder ==
    [][ Called("updatePlaylist") =>
          LET id == last'.args.id
              payload == last'.args.payload
              blank == trim(payload.name) = "" \/ trim(payload.description) = ""
              stored == id \in DOMAIN playlistsStorage
          IN /\ blank =>
                   /\ last'.result.tag = "Err"
                   /\ last'.result.err \in UpdateValidationErrors
                   /\ playlistsStorage' = playlistsStorage
             /\ (~blank /\ ~stored /\ trim(id) # "") =>
                   /\ last'.result = Err(couldNotUpdate("playlist", id))
                   /\ playlistsStorage' = playlistsStorage
             /\ (~blank /\ stored /\ last'.caller # playlistsStorage[id].admin) =>
                   /\ last'.result = Err(nonAdmin(id))
                   /\ playlistsStorage' = playlistsStorage
      ]_vars

----------------------------------------------------------------------------
(* SpecSongs: the song collection under uploadSong and updateSong, with     *)
(* payloads that repeat a (fileName, title) pair.                           *)

CatalogPayloads ==
    {SongPayload("f1", "audio/mpeg", t, <<"x">>, d) : t \in {"t1", "t2"}, d \in {1, 2}}
    \cup {SongPayload("", "audio/mpeg", "t1", <<"x">>, 1),
          SongPayload("f1", "", "t1", <<"x">>, 1),
          SongPayload("f1", "audio/mpeg", "", <<"x">>, 1),
          SongPayload("f1", "audio/mpeg", "t1", <<>>, 1)}

CatalogUpload == songIds < MaxSongs /\ \E payload \in CatalogPayloads : uploadSong(payload)

CatalogUpdate == \E id \in SongIdArgs, payload \in CatalogPayloads : updateSong(id, payload)

Next_Songs == Tick \/ CatalogUpload \/ CatalogUpdate

SpecSongs == Init /\ [][Next_Songs]_vars

(* C3: no two distinct stored songs have both the same fileName and the same *)
(* title.  The code breaks it: updateSong stores the payload's fileName and  *)
(* title without the scan that uploadSong makes.                             *)
C3_SongsUnique ==
    \A j, k \in DOMAIN songsStorage :
        (songsStorage[j].fileName = songsStorage[k].fileName
         /\ songsStorage[j].title = songsStorage[k].title) => j = k

----------------------------------------------------------------------------
(* SpecCreate: createPlaylist by two callers with every combination of a    *)
(* name and a description that is present, empty or whitespace, with        *)
(* ic.time() advancing, and deletePlaylist in between.                      *)

CreateNames == {"n1", "n2", "", " "}
CreateDescriptions == {"d1", "", " "}

CreateAny ==
    /\ playlistIds < MaxPlaylists
    /\ \E caller \in Principals, n \in CreateNames, d \in CreateDescriptions :
          createPlaylist(caller, PlaylistPayload(n, d))

CreateDelete ==
    \E caller \in Principals, id \in DOMAIN playlistsStorage : deletePlaylist(caller, id)

Next_Create == Tick \/ CreateAny \/ CreateDelete

SpecCreate == Init /\ [][Next_Create]_vars

(* C11: every successful createPlaylist(payload) by caller c stores and      *)
(* returns a playlist with admin = c, songs empty, totalDuration = 0,        *)
(* updatedAt absent, createdAt = the current time, name and description      *)
(* taken from the payload, under a fresh identifier: one that no stored      *)
(* playlist has and that the generator has not produced before.              *)
C11_CreateStoresFreshPlaylist ==
    [][ (Called("createPlaylist") /\ last'.result.tag = "Ok") =>
          LET playlist == last'.result.val
              payload == last'.args.payload
          IN /\ playlist.admin = last'.caller
             /\ playlist.songs = <<>>
             /\ playlist.totalDuration = 0
             /\ playlist.updatedAt = None
             /\ playlist.createdAt = now'
             /\ playlist.name = payload.name
             /\ playlist.description = payload.description
             /\ playlist.id \notin DOMAIN playlistsStorage
             /\ \A n \in 1..playlistIds : playlist.id # PlaylistKey(n)
             /\ \A k \in DOMAIN playlistsStorage : playlistsStorage[k].id # playlist.id
             /\ playlistsStorage' = insert(playlistsStorage, playlist.id, playlist)
      ]_vars

\* bob's playlist was created, after the clock advanced, once the first
\* playlist had been deleted
C11_Witness ==
    /\ last.op = "createPlaylist"
    /\ last.result.tag = "Ok"
    /\ last.caller = "bob"
    /\ last.result.val.id = PlaylistKey(2)
    /\ last.result.val.createdAt = now
    /\ now > 1
    /\ DOMAIN playlistsStorage = {PlaylistKey(2)}
    /\ playlistsStorage[PlaylistKey(2)] = last.result.val

\* The messages with which createPlaylist reports a missing name / description
NameErrors == {fieldCannotBeEmpty("Playlist name"), payloadMustInclude}
DescriptionErrors == {fieldCannotBeEmpty("Playlist description"), payloadMustInclude}

(* C15: createPlaylist fails with a validation error naming the first        *)
(* violated field, and stores nothing, whenever name or description is empty *)
(* or whitespace-only (name checked before description); with both fields    *)
(* valid it fails with the duplicate error, storing nothing, exactly when a  *)
(* stored playlist already has that name.  The code breaks it: revisions A   *)
(* and B never look at the description, and revisions A and C compare with   *)
(* "" only, so a whitespace-only field passes.                               *)
C15_CreateValidation ==
    [][ Called("createPlaylist") =>
          LET payload == last'.args.payload
              blankName == trim(payload.name) = ""
              blankDescription == trim(payload.description) = ""
              nameTaken == \E k \in DOMAIN playlistsStorage :
                               playlistsStorage[k].name = payload.name
          IN /\ blankName =>
                   /\ last'.result.tag = "Err"
                   /\ last'.result.err \in NameErrors
                   /\ playlistsStorage' = playlistsStorage
             /\ (~blankName /\ blankDescription) =>
                   /\ last'.result.tag = "Err"
                   /\ last'.result.err \in DescriptionErrors
                   /\ playlistsStorage' = playlistsStorage
             /\ (~blankName /\ ~blankDescription) =>
                   /\ nameTaken => /\ last'.result = Err(alreadyExists("Playlist"))
                                   /\ playlistsStorage' = playlistsStorage
                   /\ ~nameTaken => last'.result.tag = "Ok"
      ]_vars

----------------------------------------------------------------------------
(* SpecUpload: uploadSong with every combination of a fileName, a mimeType  *)
(* and a title that is present, empty or whitespace, with and without       *)
(* singers, and getSong on every identifier.                                *)

UploadPayloads ==
    {SongPayload(fn, mt, t, sg, 1) :
        fn \in {"f1", "", " "}, mt \in {"audio/mpeg", "", " "},
        t \in {"t1", "t2", "", " "}, sg \in {<<"x">>, <<>>}}

UploadAny == songIds < MaxSongs /\ \E payload \in UploadPayloads : uploadSong(payload)

GetAny == \E id \in SongIdArgs \cup {" "} : getSong(id)

Next_Upload == UploadAny \/ GetAny

SpecUpload == Init /\ [][Next_Upload]_vars

\* A stored song has the payload's fileName and title
PairStored(payload) ==
    \E k \in DOMAIN songsStorage :
        /\ songsStorage[k].fileName = payload.fileName
        /\ songsStorage[k].title = payload.title

(* C12: for every payload with non-empty fileName, mimeType and title (the   *)
(* specification's non-empty: after trimming) and non-empty singers whose    *)
(* (fileName, title) pair is not already stored, uploadSong succeeds, and    *)
(* getSong(returned.id) immediately afterwards returns a record equal to the *)
(* one uploadSong returned, with all payload fields preserved.               *)
C12_UploadRoundTrip ==
    [][ ( /\ Called("uploadSong")
          /\ trim(last'.args.payload.fileName) # ""
          /\ trim(last'.args.payload.mimeType) # ""
          /\ trim(last'.args.payload.title) # ""
          /\ last'.args.payload.singers # <<>>
          /\ ~PairStored(last'.args.payload) )
        => /\ last'.result.tag = "Ok"
           /\ payloadOf(last'.result.val) = last'.args.payload
           /\ \E id \in DOMAIN songsStorage' :
                 /\ id = last'.result.val.id
                 /\ getSongCall(id)'.result = last'.result
      ]_vars

\* the second song was uploaded and getSong hands back what uploadSong returned
C12_Witness ==
    /\ last.op = "uploadSong"
    /\ last.result.tag = "Ok"
    /\ last.result.val.id = SongKey(2)
    /\ Cardinality(DOMAIN songsStorage) = 2
    /\ getSongCall(SongKey(2)).result = last.result
    /\ payloadOf(last.result.val) = last.args.payload

C14_UploadValidation ==
    [][ Called("uploadSong") =>
          LET payload == last'.args.payload
              expected ==
                  IF trim(payload.fileName) = "" THEN Some(fieldCannotBeEmpty("File name"))
                  ELSE IF trim(payload.mimeType) = "" THEN Some(fieldCannotBeEmpty("File type"))
                  ELSE IF trim(payload.title) = "" THEN Some(fieldCannotBeEmpty("Title"))
                  ELSE IF payload.singers = <<>> THEN Some(mustProvideSingers)
                  ELSE None
          IN expected # None =>
                /\ last'.result = Err(expected[1])
                /\ last'.writes = 0
                /\ songsStorage' = songsStorage
      ]_vars

----------------------------------------------------------------------------
(* SpecStamps: the records' timestamps and fixed fields.  ic.time()         *)
(* advances; one song is uploaded and re-submitted with another genre;      *)
(* one playlist is stored at a time, created by either caller, which both   *)
(* callers try to update, fill, empty and delete.                           *)

StampUpdateSong ==
    \E id \in DOMAIN songsStorage :
        updateSong(id, [payloadOf(songsStorage[id]) EXCEPT !.genre = "pop"])

StampCreate == DOMAIN playlistsStorage = {} /\ AuthCreate

StampPayloads == {PlaylistPayload("n2", "d2"), PlaylistPayload("n1", " ")}

StampUpdate ==
    \E caller \in Principals, id \in DOMAIN playlistsStorage, payload \in StampPayloads :
        updatePlaylist(caller, id, payload)

Next_Stamps ==
    Tick \/ AdminUpload \/ StampUpdateSong \/ StampCreate \/ StampUpdate
    \/ AuthAdd \/ AuthDeleteSong \/ AuthDelete

SpecStamps == Init /\ [][Next_Stamps]_vars

(* C17: a successful updatePlaylist by the admin replaces name and           *)
(* description with the payload's values and sets updatedAt to the current   *)
(* time in one store write, and leaves the playlist's id, admin, songs,      *)
(* totalDuration and createdAt unchanged; the record stored after the call   *)
(* has both new values, never only one of them.                              *)
C17_UpdateReplacesBoth ==
    [][ (ByAdminOnStored("updatePlaylist") /\ last'.result.tag = "Ok") =>
          LET id == last'.args.id
              payload == last'.args.payload
              before == playlistsStorage[id]
              after == last'.result.val
          IN /\ last'.writes = 1
             /\ playlistsStorage' = insert(playlistsStorage, id, after)
             /\ after.name = payload.name
             /\ after.description = payload.description
             /\ after.updatedAt = Some(now')
             /\ after.id = before.id
             /\ after.admin = before.admin
             /\ after.songs = before.songs
             /\ after.totalDuration = before.totalDuration
             /\ after.createdAt = before.createdAt
      ]_vars

\* a playlist with a song was renamed n2/d2 at a later time than its creation
C17_Witness ==
    /\ last.op = "updatePlaylist"
    /\ last.result.tag = "Ok"
    /\ last.args.id \in DOMAIN playlistsStorage
    /\ playlistsStorage[last.args.id] = last.result.val
    /\ last.result.val.name = "n2"
    /\ last.result.val.description = "d2"
    /\ last.result.val.songs # <<>>
    /\ last.result.val.updatedAt = Some(now)
    /\ last.result.val.createdAt < now

\* The step is a call that changes the playlist stored under k: a successful
\* updatePlaylist, an addSongsToPlaylist that added a song, or a
\* deleteSongFromPlaylist that removed one
Mutates(k) ==
    /\ now' = now
    /\ last'.op \in {"updatePlaylist", "addSongsToPlaylist", "deleteSongFromPlaylist"}
    /\ last'.args.id = k
    /\ last'.result.tag = "Ok"
    /\ last'.op = "addSongsToPlaylist" =>
          Len(last'.result.val.songs) > Len(playlistsStorage[k].songs)
    /\ last'.op = "deleteSongFromPlaylist" =>
          last'.args.songId \in Range(playlistsStorage[k].songs)

(* C19: for every playlist, updatedAt is absent from creation until the      *)
(* first successful mutation (updatePlaylist, addSongsToPlaylist that adds   *)
(* at least one song, deleteSongFromPlaylist that removes a song), each such *)
(* mutation sets it to that mutation's timestamp, it never returns to absent *)
(* once set, and failed operations and the no-op removal never change it.    *)
C19_UpdatedAtFollowsMutations ==
    [][ \A k \in DOMAIN playlistsStorage' :
          IF k \notin DOMAIN playlistsStorage
          THEN playlistsStorage'[k].updatedAt = None
          ELSE /\ Mutates(k) => playlistsStorage'[k].updatedAt = Some(now')
               /\ ~Mutates(k) =>
                     playlistsStorage'[k].updatedAt = playlistsStorage[k].updatedAt
               /\ playlistsStorage[k].updatedAt # None =>
                     playlistsStorage'[k].updatedAt # None
      ]_vars

\* a removal that removed nothing, made after the clock advanced, on a
\* playlist that was filled and emptied earlier: updatedAt is still the time
\* of the earlier removal
C19_Witness ==
    /\ last.op = "deleteSongFromPlaylist"
    /\ last.result.tag = "Ok"
    /\ last.writes = 0
    /\ last.args.id \in DOMAIN playlistsStorage
    /\ playlistsStorage[last.args.id].songs = <<>>
    /\ playlistsStorage[last.args.id].updatedAt # None
    /\ playlistsStorage[last.args.id].updatedAt[1] < now
    /\ last.args.songId \in DOMAIN songsStorage

(* C20: across every step, a stored playlist's id, admin and createdAt, and  *)
(* a stored song's id and uploadedAt, keep the values they were given at     *)
(* creation; the record stored under key k always has id = k.                *)
C20_FixedFields ==
    [][ /\ \A k \in DOMAIN playlistsStorage' : playlistsStorage'[k].id = k
        /\ \A k \in DOMAIN songsStorage' : songsStorage'[k].id = k
        /\ \A k \in DOMAIN playlistsStorage \cap DOMAIN playlistsStorage' :
              /\ playlistsStorage'[k].id = playlistsStorage[k].id
              /\ playlistsStorage'[k].admin = playlistsStorage[k].admin
              /\ playlistsStorage'[k].createdAt = playlistsStorage[k].createdAt
        /\ \A k \in DOMAIN songsStorage \cap DOMAIN songsStorage' :
              /\ songsStorage'[k].id = songsStorage[k].id
              /\ songsStorage'[k].uploadedAt = songsStorage[k].uploadedAt
        /\ \A k \in DOMAIN playlistsStorage' \ DOMAIN playlistsStorage :
              /\ playlistsStorage'[k].createdAt = now'
              /\ playlistsStorage'[k].admin = last'.caller
        /\ \A k \in DOMAIN songsStorage' \ DOMAIN songsStorage :
              songsStorage'[k].uploadedAt = now'
      ]_vars

\* a song re-submitted by updateSong, and a playlist updated by its admin bob,
\* both at a later time than their creation
C20_Witness ==
    /\ \E k \in DOMAIN songsStorage :
          songsStorage[k].genre = "pop" /\ songsStorage[k].uploadedAt < now
    /\ \E k \in DOMAIN playlistsStorage :
          /\ playlistsStorage[k].admin = "bob"
          /\ playlistsStorage[k].name = "n2"
          /\ playlistsStorage[k].createdAt < now
          /\ playlistsStorage[k].updatedAt = Some(now)

----------------------------------------------------------------------------
(* SpecDeleted: playlists named n1 are created and deleted one after the    *)
(* other, and both callers keep calling the five operations that take a     *)
(* playlist id with every identifier, the deleted ones among them.          *)

DeletedPayloads == {PlaylistPayload("n1", "d1"), PlaylistPayload("n1", " ")}

DeletedGet == \E caller \in Principals, id \in PlaylistIdArgs : getPlaylist(caller, id)

DeletedUpdate ==
    \E caller \in Principals, id \in PlaylistIdArgs, payload \in DeletedPayloads :
        updatePlaylist(caller, id, payload)

Next_Deleted ==
    AdminUpload \/ AuthCreate \/ DeletedGet \/ DeletedUpdate
    \/ AdminAdd \/ AdminDeleteSong \/ AdminDelete

SpecDeleted == Init /\ [][Next_Deleted]_vars

ByIdOps ==
    {"getPlaylist", "updatePlaylist", "addSongsToPlaylist", "deleteSongFromPlaylist",
     "deletePlaylist"}

\* The not-found error of each operation
NotFoundOf(op, id) ==
    IF op = "getPlaylist" THEN recordWithIdNotFound("Playlist", id)
    ELSE IF op \in {"updatePlaylist", "addSongsToPlaylist"} THEN couldNotUpdate("playlist", id)
    ELSE couldNotRemove("playlist", id)

\* The identifiers the generator has produced that are no longer stored: every
\* identifier is stored when it is produced, so these are the deleted ones
DeletedIds == {PlaylistKey(n) : n \in 1..playlistIds} \ DOMAIN playlistsStorage

\* The step is a call of one of the five operations on identifier k
CalledOn(k) == now' = now /\ last'.op \in ByIdOps /\ last'.args.id = k

\* A successful deletePlaylist by the admin removes the playlist and returns
\* the record as it was stored
DeleteRemoves ==
    (ByAdminOnStored("deletePlaylist") /\ last'.result.tag = "Ok") =>
        /\ last'.result = Ok(playlistsStorage[last'.args.id])
        /\ playlistsStorage' = remove(playlistsStorage, last'.args.id)
        /\ last'.args.id \notin DOMAIN playlistsStorage'

----------------------------------------------------------------------------
(* A store write that fails.  StableBTreeMap.insert throws when the store   *)
(* refuses the entry; uploadSong and createPlaylist call it inside          *)
(* try/catch in every revision, updatePlaylist only in revision C, and      *)
(* addSongsToPlaylist and deleteSongFromPlaylist in none.                   *)

\* The call ended with an exception that nothing caught: the update call
\* traps, its caller gets no Result, and the state is as before the call
Thrown == [tag |-> "Thrown", val |-> NoRecord, err |-> "Error"]

\* The outcome of a call whose insert throws: out is the outcome the call has
\* when the insert goes through, caught the message of the catch block around
\* the insert (None without try/catch).  A call that returns before its
\* insert is not affected.
whenInsertThrows(out, caught) ==
    IF out.writes = 0 THEN out
    ELSE IF caught # None THEN Unchanged(Err(caught[1]))
    ELSE Unchanged(Thrown)

uploadSongCaught ==
    IF variant = "C" THEN Some("Error inserting a song into the storage: " \o Thrown.err)
    ELSE Some("Error inserting a song into the storage.")

createPlaylistCaught(payload) ==
    IF variant = "C"
    THEN Some("Error inserting the " \o payload.name \o " playlist. Please try again.")
    ELSE Some("Error inserting your " \o payload.name \o " playlist. Please try again.")

updatePlaylistCaught ==
    IF variant = "C"
    THEN Some("Error inserting the updated playlist into the playlistsStorage")
    ELSE None

\* uploadSong reaching an insert that throws; uuidv4() has produced the id
uploadSongStoreFails(payload) ==
    LET reached == uploadSongCall(payload)
        out == whenInsertThrows(reached, uploadSongCaught) IN
    /\ reached.writes = 1
    /\ songsStorage' = out.songs
    /\ playlistsStorage' = out.playlists
    /\ songIds' = songIds + 1
    /\ last' = [op |-> "uploadSong", caller |-> "",
                args |-> [payload |-> payload, storeFails |-> TRUE],
                result |-> out.result, writes |-> out.writes]
    /\ UNCHANGED <<playlistIds, now, variant>>

createPlaylistStoreFails(caller, payload) ==
    LET reached == createPlaylistCall(caller, payload)
        out == whenInsertThrows(reached, createPlaylistCaught(payload)) IN
    /\ reached.writes = 1
    /\ songsStorage' = out.songs
    /\ playlistsStorage' = out.playlists
    /\ playlistIds' = playlistIds + 1
    /\ last' = [op |-> "createPlaylist", caller |-> caller,
                args |-> [payload |-> payload, storeFails |-> TRUE],
                result |-> out.result, writes |-> out.writes]
    /\ UNCHANGED <<songIds, now, variant>>

updatePlaylistStoreFails(caller, id, payload) ==
    LET reached == updatePlaylistCall(caller, id, payload)
        out == whenInsertThrows(reached, updatePlaylistCaught) IN
    /\ reached.writes = 1
    /\ songsStorage' = out.songs
    /\ playlistsStorage' = out.playlists
    /\ last' = [op |-> "updatePlaylist", caller |-> caller,
                args |-> [id |-> id, payload |-> payload, storeFails |-> TRUE],
                result |-> out.result, writes |-> out.writes]
    /\ UNCHANGED <<songIds, playlistIds, now, variant>>

addSongsToPlaylistStoreFails(caller, id, songs) ==
    LET reached == addSongsToPlaylistCall(caller, id, songs)
        out == whenInsertThrows(reached, None) IN
    /\ reached.writes = 1
    /\ songsStorage' = out.songs
    /\ playlistsStorage' = out.playlists
    /\ last' = [op |-> "addSongsToPlaylist", caller |-> caller,
                args |-> [id |-> id, songs |-> songs, storeFails |-> TRUE],
                result |-> out.result, writes |-> out.writes]
    /\ UNCHANGED <<songIds, playlistIds, now, variant>>

deleteSongFromPlaylistStoreFails(caller, playlistId, songId) ==
    LET reached == deleteSongFromPlaylistCall(caller, playlistId, songId)
        out == whenInsertThrows(reached, None) IN
    /\ reached.writes = 1
    /\ songsStorage' = out.songs
    /\ playlistsStorage' = out.playlists
    /\ last' = [op |-> "deleteSongFromPlaylist", caller |-> caller,
                args |-> [id |-> playlistId, songId |-> songId, storeFails |-> TRUE],
                result |-> out.result, writes |-> out.writes]
    /\ UNCHANGED <<songIds, playlistIds, now, variant>>

(* SpecFailure: alice uploads a song, creates a playlist, adds the song and  *)
(* updates the playlist; any of the five calls that write may meet a store   *)
(* write that fails.                                                         *)

FailureAdd ==
    \E id \in DOMAIN playlistsStorage, songId \in DOMAIN songsStorage :
        addSongsToPlaylist("alice", id, <<songId>>)

FailingUpload ==
    songIds < MaxSongs /\ \E payload \in ClockPayloads : uploadSongStoreFails(payload)

FailingCreate ==
    playlistIds < MaxPlaylists /\ createPlaylistStoreFails("alice", PlaylistPayload("n1", "d1"))

FailingUpdate ==
    \E id \in DOMAIN playlistsStorage :
        updatePlaylistStoreFails("alice", id, PlaylistPayload("n1", "d2"))

FailingAdd ==
    \E id \in DOMAIN playlistsStorage, songId \in DOMAIN songsStorage :
        addSongsToPlaylistStoreFails("alice", id, <<songId>>)

FailingDeleteSong ==
    \E id \in DOMAIN playlistsStorage, songId \in DOMAIN songsStorage :
        deleteSongFromPlaylistStoreFails("alice", id, songId)

Next_Failure ==
    UploadOneOfTwo \/ CreateByAlice \/ FailureAdd
    \/ FailingUpload \/ FailingCreate \/ FailingUpdate \/ FailingAdd \/ FailingDeleteSong

SpecFailure == Init /\ [][Next_Failure]_vars

WritingOps ==
    {"uploadSong", "createPlaylist", "updatePlaylist", "addSongsToPlaylist",
     "deleteSongFromPlaylist"}

\* The step is a call of one of the five operations whose store write failed
StoreWriteFailed ==
    /\ now' = now
    /\ last'.op \in WritingOps
    /\ "storeFails" \in DOMAIN last'.args

(* C21: when the underlying store write fails during uploadSong,             *)
(* createPlaylist, updatePlaylist, addSongsToPlaylist or                     *)
(* deleteSongFromPlaylist, the operation returns an error result rather than *)
(* throwing, and neither collection is changed.  The code breaks it:         *)
(* addSongsToPlaylist and deleteSongFromPlaylist (and updatePlaylist in      *)
(* revisions A and B) call insert outside any try/catch, so the exception    *)
(* leaves the call.                                                          *)
C21_StoreFailureReturned ==
    [][ StoreWriteFailed =>
          /\ last'.result.tag = "Err"
          /\ songsStorage' = songsStorage
          /\ playlistsStorage' = playlistsStorage
      ]_vars

----------------------------------------------------------------------------
(* The queries that list a whole collection *)

getSongsCall == Unchanged(Ok(values(songsStorage)))

getSongs ==
    /\ last' = [op |-> "getSongs", caller |-> "", args |-> [id |-> ""],
                result |-> getSongsCall.result, writes |-> getSongsCall.writes]
    /\ songsStorage' = getSongsCall.songs
    /\ playlistsStorage' = getSongsCall.playlists
    /\ UNCHANGED <<songIds, playlistIds, now, variant>>

getPlaylistsCall == Unchanged(Ok(values(playlistsStorage)))

getPlaylists(caller) ==
    /\ last' = [op |-> "getPlaylists", caller |-> caller, args |-> [id |-> ""],
                result |-> getPlaylistsCall.result, writes |-> getPlaylistsCall.writes]
    /\ songsStorage' = getPlaylistsCall.songs
    /\ playlistsStorage' = getPlaylistsCall.playlists
    /\ UNCHANGED <<songIds, playlistIds, now, variant>>

----------------------------------------------------------------------------
(* SpecQueries: a song and playlists are stored, and getSong and getPlaylist *)
(* are called with stored, unknown, empty and whitespace-only identifiers.   *)

QuerySong == \E id \in SongIdArgs \cup {" "} : getSong(id)

QueryPlaylist ==
    \E caller \in Principals, id \in PlaylistIdArgs \cup {" "} : getPlaylist(caller, id)

Next_Queries == AdminUpload \/ AuthCreate \/ QuerySong \/ QueryPlaylist

SpecQueries == Init /\ [][Next_Queries]_vars

\* What the lookup of id in store returns by the stated order of cases
LookupResult(store, id, fieldName, recordName) ==
    IF trim(id) = "" THEN Err(fieldCannotBeEmpty(fieldName))
    ELSE IF id \notin DOMAIN store THEN Err(recordWithIdNotFound(recordName, id))
    ELSE Ok(store[id])

(* C22: getSong(id) and getPlaylist(id) return a validation error when id is *)
(* empty or whitespace-only, otherwise a not-found error when no record is   *)
(* stored under id, otherwise exactly the stored record; neither call        *)
(* changes either collection.  The code breaks it: revisions A and C test    *)
(* id === "" only, so a whitespace-only id gets the not-found error.         *)
C22_LookupCases ==
    [][ /\ Called("getSong") =>
            /\ last'.result = LookupResult(songsStorage, last'.args.id, "Song id", "Song")
            /\ songsStorage' = songsStorage /\ playlistsStorage' = playlistsStorage
        /\ Called("getPlaylist") =>
            /\ last'.result =
                 LookupResult(playlistsStorage, last'.args.id, "Playlist id", "Playlist")
            /\ songsStorage' = songsStorage /\ playlistsStorage' = playlistsStorage
      ]_vars

----------------------------------------------------------------------------
(* SpecBatch: two songs, one playlist of alice, and addSongsToPlaylist called *)
(* by either principal with any playlist id and any list of candidates, so    *)
(* that every return of the handler is taken.                                 *)

BatchPayloads ==
    {SongPayload("f1", "audio/mpeg", "t1", <<"x">>, 1),
     SongPayload("f1", "audio/mpeg", "t2", <<"x">>, 1)}

BatchUpload == songIds < MaxSongs /\ \E payload \in BatchPayloads : uploadSong(payload)

BatchCreate == playlistIds = 0 /\ CreateByAlice

BatchAdd ==
    \E caller \in Principals, id \in PlaylistIdArgs, songs \in SongLists :
        addSongsToPlaylist(caller, id, songs)

Next_Batch == BatchUpload \/ BatchCreate \/ BatchAdd

SpecBatch == Init /\ [][Next_Batch]_vars

(* C23: each call of addSongsToPlaylist issues exactly one write to the      *)
(* playlist store on its success path and zero writes on every failure path; *)
(* the one record written holds all the accepted candidates, so no state in  *)
(* which only some of them have been appended is ever stored.                *)
C23_OneWriteOrNone ==
    [][ Called("addSongsToPlaylist") =>
          LET id == last'.args.id
              result == last'.result
          IN /\ result.tag = "Ok" =>
                   /\ last'.writes = 1
                   /\ playlistsStorage' = insert(playlistsStorage, id, result.val)
                   /\ result.val.songs =
                        playlistsStorage[id].songs
                        \o Accepted(last'.args.songs, playlistsStorage[id].songs,
                                    songsStorage)
             /\ result.tag = "Err" =>
                   /\ last'.writes = 0
                   /\ playlistsStorage' = playlistsStorage
      ]_vars

\* A call has appended two accepted songs with its one write
C23_Witness ==
    /\ last.op = "addSongsToPlaylist"
    /\ last.result.tag = "Ok"
    /\ last.writes = 1
    /\ Len(last.args.songs) = 2
    /\ playlistsStorage[last.args.id].songs = last.args.songs

----------------------------------------------------------------------------
(* SpecPlaylists: one song in the catalog, playlists n1 and n2 of alice, and *)
(* every playlist operation called by either principal on any playlist id.   *)

PlaylistsCreate ==
    /\ playlistIds < MaxPlaylists
    /\ \E n \in AdminNames : createPlaylist("alice", PlaylistPayload(n, "d1"))

PlaylistsUpdate ==
    \E caller \in Principals, id \in PlaylistIdArgs :
        updatePlaylist(caller, id, PlaylistPayload("n1", "d2"))

PlaylistsAdd ==
    \E caller \in Principals, id \in PlaylistIdArgs, songId \in DOMAIN songsStorage :
        addSongsToPlaylist(caller, id, <<songId>>)

PlaylistsDeleteSong ==
    \E caller \in Principals, id \in PlaylistIdArgs, songId \in DOMAIN songsStorage :
        deleteSongFromPlaylist(caller, id, songId)

PlaylistsGet == \E id \in PlaylistIdArgs : getPlaylist("bob", id)

PlaylistsList == getPlaylists("bob")

Next_Playlists ==
    AdminUpload \/ PlaylistsCreate \/ PlaylistsUpdate \/ PlaylistsAdd
    \/ PlaylistsDeleteSong \/ AdminDelete \/ PlaylistsGet \/ PlaylistsList

SpecPlaylists == Init /\ [][Next_Playlists]_vars

PlaylistOps ==
    {"createPlaylist", "updatePlaylist", "addSongsToPlaylist", "deleteSongFromPlaylist",
     "deletePlaylist", "getPlaylist", "getPlaylists"}

(* C24: no playlist operation (createPlaylist, updatePlaylist,               *)
(* addSongsToPlaylist, deleteSongFromPlaylist, deletePlaylist, getPlaylist,  *)
(* getPlaylists) changes the song collection: the set of stored songs and    *)
(* every field of every song are the same before and after, on success and   *)
(* on every error path.                                                      *)
C24_PlaylistOpsKeepSongs ==
    [][ (now' = now /\ last'.op \in PlaylistOps) => songsStorage' = songsStorage ]_vars

\* A song has been taken out of a playlist and is still in the catalog
C24_Witness ==
    /\ last.op = "deleteSongFromPlaylist"
    /\ last.result.tag = "Ok"
    /\ last.writes = 1
    /\ last.args.songId \in DOMAIN songsStorage

\* The playlist operations that change a playlist given by its id
AddressedOps ==
    {"updatePlaylist", "addSongsToPlaylist", "deleteSongFromPlaylist", "deletePlaylist"}

(* C28: every mutating playlist operation addressed to playlist id p         *)
(* (updatePlaylist, addSongsToPlaylist, deleteSongFromPlaylist,              *)
(* deletePlaylist), whether it succeeds or fails, leaves every stored        *)
(* playlist with id different from p unchanged in every field and in its     *)
(* presence.                                                                 *)
C28_OtherPlaylistsUntouched ==
    [][ (now' = now /\ last'.op \in AddressedOps) =>
          \A k \in (DOMAIN playlistsStorage \cup DOMAIN playlistsStorage') \ {last'.args.id} :
              /\ k \in DOMAIN playlistsStorage
              /\ k \in DOMAIN playlistsStorage'
              /\ playlistsStorage'[k] = playlistsStorage[k]
      ]_vars

\* A playlist has been deleted by its admin while another playlist is stored
C28_Witness ==
    /\ last.op = "deletePlaylist"
    /\ last.result.tag = "Ok"
    /\ last.args.id \notin DOMAIN playlistsStorage
    /\ DOMAIN playlistsStorage # {}

----------------------------------------------------------------------------
(* C25: in every reachable state, a stored playlist whose songs sequence is  *)
(* empty has totalDuration = 0, for any signed song durations, any order of  *)
(* adds and removals, and any updateSong calls in between.  The code breaks  *)
(* it: after the floor at 0 has been applied for one removal, removing a     *)
(* song of negative duration raises the total of the emptied playlist above  *)
(* 0; so does removing a song whose duration was lowered by updateSong.      *)
C25_EmptyPlaylistHasZeroTotal ==
    \A k \in DOMAIN playlistsStorage :
        playlistsStorage[k].songs = <<>> => playlistsStorage[k].totalDuration = 0

----------------------------------------------------------------------------
(* SpecNonNegative: every uploaded song has duration >= 0 and no song is     *)
(* changed after upload (updateSong is not called); alice adds lists of      *)
(* songs to her playlist and removes songs from it.                          *)

NonNegativeUpload ==
    songIds < MaxSongs /\ \E payload \in ScenarioPayloads : uploadSong(payload)

Next_NonNegative == NonNegativeUpload \/ BatchCreate \/ AddSongs \/ DeleteSong

SpecNonNegative == Init /\ [][Next_NonNegative]_vars

\* The step removes a member song from a stored playlist
RemovesMember ==
    /\ ByAdminOnStored("deleteSongFromPlaylist")
    /\ last'.result.tag = "Ok"
    /\ last'.args.songId \in Range(playlistsStorage[last'.args.id].songs)

(* C26: if every uploaded song has duration >= 0 and song records are never  *)
(* modified after upload, then in every reachable state every playlist's     *)
(* totalDuration is >= 0, and the reset-to-0 branch of                       *)
(* deleteSongFromPlaylist is never taken: each removal of a member song      *)
(* finds the song in the catalog with a duration not above the total and     *)
(* decreases totalDuration by exactly that duration.                         *)
C26_RemovalSubtractsExactly ==
    [][ /\ \A k \in DOMAIN playlistsStorage' : playlistsStorage'[k].totalDuration >= 0
        /\ RemovesMember =>
             LET before == playlistsStorage[last'.args.id]
                 songId == last'.args.songId
             IN /\ songId \in DOMAIN songsStorage
                /\ before.totalDuration - songsStorage[songId].duration >= 0
                /\ playlistsStorage'[last'.args.id].totalDuration =
                       before.totalDuration - songsStorage[songId].duration
      ]_vars

\* A song of duration above 0 has been removed while another song remains
C26_Witness ==
    /\ last.op = "deleteSongFromPlaylist"
    /\ last.result.tag = "Ok"
    /\ last.writes = 1
    /\ songsStorage[last.args.songId].duration > 0
    /\ playlistsStorage[last.args.id].songs # <<>>
    /\ playlistsStorage[last.args.id].totalDuration > 0

----------------------------------------------------------------------------
(* C27: in every reachable state, every song identifier listed in any stored *)
(* playlist's songs is the key of a song present in the song collection, and *)
(* a song once successfully uploaded stays retrievable by getSong in every   *)
(* later state: no operation removes a song.                                 *)
C27_MembersAreStoredSongs ==
    [][ /\ \A k \in DOMAIN playlistsStorage' :
              Range(playlistsStorage'[k].songs) \subseteq DOMAIN songsStorage'
        /\ \A id \in DOMAIN songsStorage :
              /\ getSongCall(id)'.result.tag = "Ok"
              /\ getSongCall(id)'.result.val.id = id
      ]_vars

\* An add has skipped a candidate that is not in the catalog and appended
\* another, and a song uploaded earlier is in a playlist
C27_Witness ==
    /\ last.op = "addSongsToPlaylist"
    /\ last.result.tag = "Ok"
    /\ Range(last.args.songs) \ DOMAIN songsStorage # {}
    /\ playlistsStorage[last.args.id].songs # <<>>

----------------------------------------------------------------------------
\* seq without its entry at position i
Without(seq, i) == SubSeq(seq, 1, i - 1) \o SubSeq(seq, i + 1, Len(seq))

----------------------------------------------------------------------------
(* SpecRepeat: time passes while alice adds lists of songs to her playlist   *)
(* and removes songs from it.                                                *)

RepeatAdd ==
    \E id \in DOMAIN playlistsStorage, songs \in SongLists :
        addSongsToPlaylist("alice", id, songs)

RepeatRemove ==
    \E id \in DOMAIN playlistsStorage, songId \in DOMAIN songsStorage :
        deleteSongFromPlaylist("alice", id, songId)

Next_Repeat == Tick \/ BatchUpload \/ BatchCreate \/ RepeatAdd \/ RepeatRemove

SpecRepeat == Init /\ [][Next_Repeat]_vars

\* The step is the call recorded in last made once more, last being a
\* successful addSongsToPlaylist and no other call having come in between
RepeatsSuccessfulAdd ==
    /\ last.op = "addSongsToPlaylist"
    /\ last.result.tag = "Ok"
    /\ Called("addSongsToPlaylist")
    /\ last'.caller = last.caller
    /\ last'.args = last.args

====
